---- MODULE Spec2Model ----
(***************************************************************************)
(* Model of src/main.py: the RepositoryDocumenter pipeline                 *)
(*   get_repo_info (scan + language statistics)                            *)
(*   generate_readme (analyze_file per descriptor, synthesis, template,    *)
(*                    _postprocess_readme)                                 *)
(* and of the model client analyze_with_llm.                               *)
(*                                                                         *)
(* Texts are sequences of atoms (strings).  An atom stands for a piece of  *)
(* text that the code never looks inside; the atoms the code does look for *)
(* (placeholder tokens, the failure placeholder, whitespace) are kept as   *)
(* they are spelled in the running program.  In particular a Python        *)
(* f-string turns the source text "{{x}}" into the text "{x}", while a     *)
(* plain string literal "{{x}}" stays "{{x}}".                             *)
(***************************************************************************)
EXTENDS Integers, Sequences, FiniteSets, TLC

VARIABLES
    disk,        \* the repository tree: sequence of file paths in os.walk order
    disk_content,\* what _read_file_content returns for each path of the tree
    pc,          \* position of the main flow
    repo_info,   \* the dict returned by get_repo_info
    idx,         \* loop index of the analysis loop in generate_readme
    calls,       \* every call of analyze_with_llm so far, in order
    readme,      \* value returned by generate_readme (None until it returns)
    response,    \* HTTP outcome of the latest request of the model client
    llm_return,  \* outcome of the latest analyze_with_llm call
    sections_used,\* the seven texts generate_readme puts into the template
    thread,      \* run_with_loading_animation: state of the worker thread
    current_step,\* run_with_loading_animation: current_step, in tenths
    loop_pc,     \* run_with_loading_animation: position of the polling loop
    frame,       \* run_with_loading_animation: the latest frame written
    message,     \* run_with_loading_animation: message
    slots,       \* run_with_loading_animation: result[0] and exception[0]
    anim_return, \* run_with_loading_animation: how the call has ended
    temp_dir,    \* self.temp_dir of the RepositoryDocumenter made
    temp_dir_exists, \* os.path.exists of the temp_repos directory
    repo,        \* self.repo
    documenter,  \* the variable documenter of the main flow
    main_log,    \* the stages the main flow has been through, with outcomes
    rmtree_log   \* per call of cleanup, the outcomes of its shutil.rmtree calls

\* the variables of run_with_loading_animation
anim_vars == <<thread, current_step, loop_pc, frame, message, slots, anim_return>>

\* the variables of the object's life cycle and of the main flow
main_vars == <<temp_dir, temp_dir_exists, repo, documenter, main_log, rmtree_log>>

vars == <<disk, disk_content, pc, repo_info, idx, calls, readme, response,
          llm_return, sections_used, thread, current_step, loop_pc, frame,
          message, slots, anim_return, temp_dir, temp_dir_exists, repo,
          documenter, main_log, rmtree_log>>

-----------------------------------------------------------------------------
(* Bounds of the model *)

\* largest number of files in a repository tree
MaxFiles == 2

\* largest total number of characters of all file contents of a tree
MaxRepoChars == 5

\* largest number of requests made through the model client on its own
MaxClientCalls == 2

-----------------------------------------------------------------------------
(* Texts *)

\* Python's None, where a text is expected (Optional[str])
None == <<"\\None">>

\* "" is the empty text
Empty == <<>>

\* truthiness of an Optional[str]: None and "" are falsy
Truthy(t) == t # None /\ t # Empty

\* the characters of file contents: content of length n is its first n characters
Chars == <<"c1", "c2", "c3", "c4", "c5", "c6", "c7", "c8">>

ContentOfLen(n) == SubSeq(Chars, 1, n)

Min(a, b) == IF a < b THEN a ELSE b

RECURSIVE Flatten(_)
\* concatenation of a sequence of texts
Flatten(ss) == IF ss = <<>> THEN <<>> ELSE Head(ss) \o Flatten(Tail(ss))

RECURSIVE Replace(_, _, _)
\* str.replace(old, new) for a one-atom old: every occurrence is replaced,
\* the inserted text is not scanned again
Replace(text, old, new) ==
    IF text = <<>> THEN <<>>
    ELSE (IF Head(text) = old THEN new ELSE <<Head(text)>>)
         \o Replace(Tail(text), old, new)

\* "old in text" for a one-atom old
Contains(text, old) == \E i \in 1..Len(text) : text[i] = old

Range(s) == {s[i] : i \in 1..Len(s)}

-----------------------------------------------------------------------------
(* File classification and the repository tree *)

\* RepositoryDocumenter.__init__: self.ignore_dirs
ignore_dirs == {".git", "__pycache__", "node_modules", "venv", "env", ".idea",
                ".vscode", ".github"}

\* RepositoryDocumenter.__init__: self.ignore_files
ignore_files == {".gitignore", "README.md", "LICENSE", "CONTRIBUTING.md",
                 "CODE_OF_CONDUCT.md"}

\* RepositoryDocumenter.__init__: self.file_extensions
file_extensions ==
    [e \in {".py", ".js", ".ts", ".java", ".kt", ".go", ".rs", ".rb", ".php", ".sh",
            ".md", ".html", ".css", ".scss", ".json", ".yml", ".yaml", ".toml",
            ".dockerfile", ".sql", ".c", ".cpp", ".h", ".hpp", ".cs", ".swift",
            ".r", ".pl", ".lua", ".vue", ".jsx", ".tsx"} |->
        CASE e = ".py" -> "Python"       [] e = ".js" -> "JavaScript"
          [] e = ".ts" -> "TypeScript"   [] e = ".java" -> "Java"
          [] e = ".kt" -> "Kotlin"       [] e = ".go" -> "Go"
          [] e = ".rs" -> "Rust"         [] e = ".rb" -> "Ruby"
          [] e = ".php" -> "PHP"         [] e = ".sh" -> "Bash"
          [] e = ".md" -> "Markdown"     [] e = ".html" -> "HTML"
          [] e = ".css" -> "CSS"         [] e = ".scss" -> "SASS"
          [] e = ".json" -> "JSON"       [] e = ".yml" -> "YAML"
          [] e = ".yaml" -> "YAML"       [] e = ".toml" -> "TOML"
          [] e = ".dockerfile" -> "Docker" [] e = ".sql" -> "SQL"
          [] e = ".c" -> "C"             [] e = ".cpp" -> "C++"
          [] e = ".h" -> "C/C++ Header"  [] e = ".hpp" -> "C++ Header"
          [] e = ".cs" -> "C#"           [] e = ".swift" -> "Swift"
          [] e = ".r" -> "R"             [] e = ".pl" -> "Perl"
          [] e = ".lua" -> "Lua"         [] e = ".vue" -> "Vue.js"
          [] e = ".jsx" -> "React JSX"   [] e = ".tsx" -> "React TSX"]

\* every language label a descriptor or the statistics can carry
Languages == {file_extensions[e] : e \in DOMAIN file_extensions} \cup {"Unknown"}

\* the file paths a repository tree is drawn from, as sequences of components,
\* in the order os.walk meets them (a directory's files, then its subdirectories)
WalkOrder == << <<"a.py">>, <<"b.json">>, <<"c.yml">>, <<"d.toml">>, <<"n.md">>,
                <<"LICENSE">>, <<"license">>, <<"README.md">>,
                <<"docs", "License">>, <<"docs", "m.js">>, <<".git", "config">> >>

Universe == {WalkOrder[i] : i \in 1..Len(WalkOrder)}

\* os.path.splitext(file)[1].lower() for the file names of Universe
splitext_lower(file) ==
    CASE file = "a.py" -> ".py"      [] file = "b.json" -> ".json"
      [] file = "c.yml" -> ".yml"    [] file = "d.toml" -> ".toml"
      [] file = "n.md" -> ".md"      [] file = "README.md" -> ".md"
      [] file = "m.js" -> ".js"      [] OTHER -> ""

\* str.lower() for the path components of Universe
lower(s) ==
    CASE s = "LICENSE" -> "license"  [] s = "License" -> "license"
      [] s = "README.md" -> "readme.md" [] OTHER -> s

\* file["path"].lower(): the relative path, lowered
path_lower(path) == [i \in 1..Len(path) |-> lower(path[i])]

basename(path) == path[Len(path)]

\* the directories above a file, outermost first
dirs_of(path) == SubSeq(path, 1, Len(path) - 1)

\* os.walk with "dirs[:] = [d for d in dirs if d not in self.ignore_dirs]":
\* a file is reached iff no directory above it is ignored
walk_pruned(path) == \A i \in 1..(Len(path) - 1) : path[i] \notin ignore_dirs

\* _scan_repository: the descriptor of one file
file_info_of(path) ==
    LET file_ext == splitext_lower(basename(path)) IN
    [ path      |-> path,
      extension |-> file_ext,
      language  |-> IF file_ext \in DOMAIN file_extensions
                    THEN file_extensions[file_ext] ELSE "Unknown",
      content   |-> disk_content[path],
      analysis  |-> None,
      has_combine_message |-> FALSE,
      combine_message |-> None ]

\* _scan_repository: which files of the walk are listed
scan_keeps(path) == walk_pruned(path) /\ basename(path) \notin ignore_files

\* _scan_repository
scan_repository ==
    LET kept == SelectSeq(disk, scan_keeps)
    IN  [i \in 1..Len(kept) |-> file_info_of(kept[i])]

\* _get_language_stats: which files of the walk are tallied
stats_tallies(path) ==
    walk_pruned(path) /\ splitext_lower(basename(path)) \in DOMAIN file_extensions

\* _get_language_stats: language -> number of files (0: the key is absent)
get_language_stats ==
    LET tallied == SelectSeq(disk, stats_tallies)
    IN  [lang \in Languages |->
            Cardinality({i \in 1..Len(tallied) :
                file_extensions[splitext_lower(basename(tallied[i]))] = lang})]

\* _get_remote_url: left opaque
remote_url == "remote_url"

-----------------------------------------------------------------------------
(* The model client: analyze_with_llm *)

Whitespace == {" ", "\n"}

RECURSIVE lstrip(_)
lstrip(t) == IF t # <<>> /\ Head(t) \in Whitespace THEN lstrip(Tail(t)) ELSE t

RECURSIVE rstrip(_)
rstrip(t) == IF t # <<>> /\ t[Len(t)] \in Whitespace
             THEN rstrip(SubSeq(t, 1, Len(t) - 1)) ELSE t

\* str.strip()
strip(t) == rstrip(lstrip(t))

\* What one requests.post can come to.  net: whether a response arrived at all;
\* status: its status code; body_kind: what response.json() makes of the body
\* ("invalid": not JSON, "list": JSON but not an object, "dict": an object);
\* has_response / is_str / text: the object's "response" member.
Resp(net, status, body_kind, has_response, is_str, text) ==
    [ net |-> net, status |-> status, body_kind |-> body_kind,
      has_response |-> has_response, is_str |-> is_str, text |-> text ]

\* no request made yet
NoResponse == Resp("none", 0, "none", FALSE, FALSE, Empty)

ConnectionError == Resp("connection_error", 0, "none", FALSE, FALSE, Empty)

Timeout == Resp("timeout", 0, "none", FALSE, FALSE, Empty)

\* a 200 answer whose body is {"response": text}
OkText(text) == Resp("ok", 200, "dict", TRUE, TRUE, text)

\* the status codes responses are drawn from
StatusCodes == {200, 302, 404, 500}

\* the bodies responses are drawn from, for the "response" texts given
BodiesOf(texts) ==
    { <<"invalid", FALSE, FALSE, Empty>>,     \* not JSON
      <<"list", FALSE, FALSE, Empty>>,        \* JSON, not an object
      <<"dict", FALSE, FALSE, Empty>>,        \* {} : no "response" member
      <<"dict", TRUE, FALSE, Empty>> }        \* {"response": null}
    \cup { <<"dict", TRUE, TRUE, t>> : t \in texts }

\* every outcome of a request, for the "response" texts given
ResponsesOf(texts) ==
    { ConnectionError, Timeout }
    \cup { Resp("ok", st, b[1], b[2], b[3], b[4]) :
              st \in StatusCodes, b \in BodiesOf(texts) }

\* Response.raise_for_status raises HTTPError for 4xx and 5xx
raise_for_status_raises(resp) == 400 <= resp.status /\ resp.status < 600

\* the exception raised inside the try block of analyze_with_llm, "none" if none
llm_exception(resp) ==
    IF resp.net # "ok" THEN "RequestException"               \* requests.post
    ELSE IF raise_for_status_raises(resp) THEN "RequestException"
    ELSE IF resp.body_kind = "invalid" THEN "JSONDecodeError" \* response.json()
    ELSE IF resp.body_kind # "dict" THEN "AttributeError"     \* result.get
    ELSE IF resp.has_response /\ ~resp.is_str THEN "AttributeError" \* .strip()
    ELSE "none"

\* the except clauses of analyze_with_llm, in order
llm_except_clauses_mutant == <<"RequestException", "JSONDecodeError">>

llm_except_clauses == <<"RequestException", "JSONDecodeError", "Exception">>

\* does "except clause" catch an exception of class exc
except_matches(clause, exc) == clause = "Exception" \/ clause = exc

\* analyze_with_llm: what the call comes to for the caller
analyze_with_llm(resp) ==
    LET exc == llm_exception(resp) IN
    IF exc = "none"
    THEN [ raised |-> FALSE,
           value  |-> strip(IF resp.has_response THEN resp.text ELSE Empty) ]
    ELSE IF \E i \in 1..Len(llm_except_clauses) :
                except_matches(llm_except_clauses[i], exc)
         THEN [ raised |-> FALSE, value |-> Empty ]
         ELSE [ raised |-> TRUE, value |-> Empty ]

\* no call made yet
NoReturn == [ raised |-> FALSE, value |-> None ]

-----------------------------------------------------------------------------
(* analyze_file *)

\* analyze_file: max_chunk_size.  The program's value is 5000; the model keeps
\* the chunking arithmetic and scales the size down with the content lengths.
max_chunk_size == 2

\* the languages analyze_file does not analyze
skipped_languages == {"Unknown", "JSON", "YAML", "TOML", "Markdown"}

\* analyze_file: the fixed text stored when no chunk gave a result
\* ("Ne udalos' poluchit' analiz fajla." in the program's language)
AnalysisFailed == <<"could not get the file's analysis">>

\* range(0, n, step) as a sequence
range_from_zero(n, step) ==
    [k \in 1..Cardinality({i \in 0..(n - 1) : i % step = 0}) |-> (k - 1) * step]

\* content[i:i+size] with Python's 0-based, end-clamped slices
slice_mutant(content, i, size) == SubSeq(content, i + 1, Min(i + size + 1, Len(content)))

slice(content, i, size) == SubSeq(content, i + 1, Min(i + size, Len(content)))

\* [content[i:i+max_chunk_size] for i in range(0, len(content), max_chunk_size)]
chunks_of(content) ==
    LET starts == range_from_zero(Len(content), max_chunk_size)
    IN  [k \in 1..Len(starts) |-> slice(content, starts[k], max_chunk_size)]

\* the skip test of analyze_file
analysis_skipped_mutant(file_info) ==
    ~Truthy(file_info.content) \/ file_info.language \in {"Unknown", "JSON"}

analysis_skipped(file_info) ==
    ~Truthy(file_info.content) \/ file_info.language \in skipped_languages

\* prompt_template as the f-string evaluates: its "{{chunk_content}}" becomes
\* the text "{chunk_content}"
prompt_template(file_info) ==
    <<"analysis instructions", "File:">> \o file_info.path
    \o <<"Language:", file_info.language, "{chunk_content}">>

\* prompt_template.replace("{{chunk_content}}", chunk)
chunk_prompt(file_info, chunk) ==
    Replace(prompt_template(file_info), "{{chunk_content}}", chunk)

RECURSIVE join(_, _)
\* sep.join(texts)
join(sep, texts) ==
    IF texts = <<>> THEN <<>>
    ELSE IF Len(texts) = 1 THEN texts[1]
    ELSE texts[1] \o <<sep>> \o join(sep, Tail(texts))

\* the parts joined by combine_prompt
combine_parts_mutant(analysis_results) ==
    [i \in 1..Len(analysis_results) |->
        analysis_results[Len(analysis_results) + 1 - i]]

combine_parts(analysis_results) == analysis_results

\* combine_prompt
combine_prompt(analysis_results) ==
    <<"combine instructions">> \o join("\n", combine_parts(analysis_results))

\* when analyze_file asks for a consolidation
needs_combine_mutant(analysis_results) == Len(analysis_results) >= 1

needs_combine(analysis_results) == Len(analysis_results) > 1

\* one entry of the call log
Call(kind, path, part, chunk, prompt, ret) ==
    [ kind |-> kind, path |-> path, part |-> part, chunk |-> chunk,
      prompt |-> prompt, result |-> ret.value, raised |-> ret.raised ]

\* the loop over the chunks leaves at the first chunk whose call gave nothing
chunk_calls_made_mutant(rets) ==
    IF \E k \in 1..Len(rets) : rets[k].raised \/ rets[k].value = Empty
    THEN CHOOSE k \in 1..Len(rets) :
           /\ rets[k].raised \/ rets[k].value = Empty
           /\ \A j \in 1..(k - 1) : ~(rets[j].raised \/ rets[j].value = Empty)
    ELSE Len(rets)

\* the loop over the chunks, rets[k] being what the call for chunk k gives:
\* the number of chunk calls made, all of them unless one raises
chunk_calls_made(rets) ==
    IF \E k \in 1..Len(rets) : rets[k].raised
    THEN CHOOSE k \in 1..Len(rets) :
           rets[k].raised /\ \A j \in 1..(k - 1) : ~rets[j].raised
    ELSE Len(rets)

\* analyze_file(file_info), the model answering its k-th request with resps[k].
\* Gives the descriptor as the call leaves it, the calls it made, and whether
\* an exception left it.
analyze_file(file_info, resps) ==
    IF analysis_skipped(file_info)
    THEN [ file_info |-> file_info, calls |-> <<>>, raised |-> FALSE,
           last |-> NoResponse ]
    ELSE
    LET chunks == chunks_of(file_info.content)
        n      == Len(chunks)
        ret(k) == analyze_with_llm(resps[k])
        made   == chunk_calls_made([k \in 1..n |-> ret(k)])
        chunk_calls == [k \in 1..made |->
            Call("chunk", file_info.path, k, chunks[k],
                 chunk_prompt(file_info, chunks[k]), ret(k))]
        ok_parts == SelectSeq([k \in 1..n |-> k], LAMBDA k : ret(k).value # Empty)
        analysis_results == [j \in 1..Len(ok_parts) |-> ret(ok_parts[j]).value]
        combine_ret == ret(n + 1)
    IN
    IF \E k \in 1..n : ret(k).raised
    THEN [ file_info |-> file_info, calls |-> chunk_calls, raised |-> TRUE,
           last |-> resps[made] ]
    ELSE IF needs_combine(analysis_results)
    THEN [ file_info |->
             IF combine_ret.raised THEN file_info
             ELSE [file_info EXCEPT !.analysis = combine_ret.value,
                                    !.has_combine_message = TRUE,
                                    !.combine_message = <<"combining parts">>],
           calls |-> Append(chunk_calls,
                       Call("combine", file_info.path, 0, Empty,
                            combine_prompt(analysis_results), combine_ret)),
           raised |-> combine_ret.raised,
           last |-> resps[n + 1] ]
    ELSE [ file_info |->
             [file_info EXCEPT !.analysis = IF analysis_results # <<>>
                                            THEN analysis_results[1]
                                            ELSE AnalysisFailed,
                               !.has_combine_message = TRUE],
           calls |-> chunk_calls, raised |-> FALSE, last |-> resps[n] ]

-----------------------------------------------------------------------------
(* generate_readme: synthesis of the sections *)

\* the "required" list of response_schema
SectionKeys == { "project_description", "project_overview_content",
                 "features_content", "technologies_content",
                 "installation_content", "usage_examples_content",
                 "project_structure_description" }

\* the test of _format_files_analysis without the comparison to the failure text
analysis_is_formatted_mutant(file) == Truthy(file.analysis)

\* _format_files_analysis: is the file's analysis put into the prompt
analysis_is_formatted(file) ==
    Truthy(file.analysis) /\ file.analysis # AnalysisFailed

\* _format_files_analysis: the entry of one file
formatted_entry(file) ==
    <<"### File:">> \o file.path \o <<"Language:", file.language>>
    \o file.analysis \o <<"\n">>

\* _format_files_analysis
format_files_analysis(files) ==
    LET chosen == SelectSeq(files, analysis_is_formatted)
        formatted == [i \in 1..Len(chosen) |-> formatted_entry(chosen[i])]
    IN  IF formatted # <<>> THEN join("\n", formatted)
        ELSE <<"files analysis unavailable">>

\* llm_prompt_for_sections
llm_prompt_for_sections(info) ==
    <<"sections instructions", info.remote_url>> \o format_files_analysis(info.files)

\* a parsed JSON value: error (json.JSONDecodeError), or a value that is a dict
\* with the given keys and member texts, or some other JSON value
Parsed(error, is_dict, keys, members) ==
    [ error |-> error, is_dict |-> is_dict, keys |-> keys, members |-> members ]

\* the answers to the sections request that the model draws from
SectionsTexts == { <<"not json">>, <<"[]">>, <<"{}">>, <<"{sections}">>,
                   <<"{sections, placeholders in them}">>,
                   <<"{two sections}">> }

\* json.loads on the texts of SectionsTexts and on ""
json_loads(text) ==
    CASE text = <<"[]">> -> Parsed(FALSE, FALSE, {}, [k \in SectionKeys |-> Empty])
      [] text = <<"{}">> -> Parsed(FALSE, TRUE, {}, [k \in SectionKeys |-> Empty])
      [] text = <<"{sections}">> ->
            Parsed(FALSE, TRUE, SectionKeys, [k \in SectionKeys |-> <<"generated", k>>])
      [] text = <<"{sections, placeholders in them}">> ->
            Parsed(FALSE, TRUE, SectionKeys,
                   [k \in SectionKeys |->
                      CASE k = "project_description" -> <<"generated", "{{license_content}}">>
                        [] k = "features_content" -> <<"{{project_structure_content}}">>
                        [] k = "installation_content" -> <<"{{contributing_content}}", "generated">>
                        [] k = "usage_examples_content" -> <<"{license_content}">>
                        [] OTHER -> <<"generated", k>>])
      [] text = <<"{two sections}">> ->
            Parsed(FALSE, TRUE, {"project_description", "features_content"},
                   [k \in SectionKeys |-> <<"generated", k>>])
      [] OTHER -> Parsed(TRUE, FALSE, {}, [k \in SectionKeys |-> Empty])

\* the dict used when json.loads raises, holding empty strings
fallback_sections_mutant == [k \in SectionKeys |-> Empty]

\* generate_readme: the dict used when json.loads raises JSONDecodeError
fallback_sections == [k \in SectionKeys |-> <<"could not generate", k>>]

\* generated_sections.get(key, "... not generated") with a key missing gives
\* None instead of the default
section_get_mutant(sections, key) ==
    IF key \in sections.keys THEN sections.members[key] ELSE None

\* generated_sections.get(key, "... not generated")
section_get(sections, key) ==
    IF key \in sections.keys THEN sections.members[key] ELSE <<"not generated", key>>

\* no text has been put into the template yet
NoSections == [k \in SectionKeys |-> None]

-----------------------------------------------------------------------------
(* generate_readme: the template, and _postprocess_readme *)

\* readme_template_content as the f-strings evaluate: the source text
\* "{{project_structure_content}}" becomes the text "{project_structure_content}",
\* and likewise for the two other placeholders
readme_template_content(sections) ==
       <<"header">> \o section_get(sections, "project_description")
    \o <<"contents", "## description">>
    \o section_get(sections, "project_overview_content")
    \o <<"## features">> \o section_get(sections, "features_content")
    \o <<"## technologies">> \o section_get(sections, "technologies_content")
    \o <<"## installation">> \o section_get(sections, "installation_content")
    \o <<"## usage">> \o section_get(sections, "usage_examples_content")
    \o <<"## structure">> \o section_get(sections, "project_structure_description")
    \o <<"{project_structure_content}",
         "## contributing", "{contributing_content}",
         "## license", "{license_content}",
         "contacts and footer">>

\* the placeholders the template holds
TemplatePlaceholders ==
    {"{project_structure_content}", "{contributing_content}", "{license_content}"}

\* the tokens _postprocess_readme looks for
PostprocessTokens ==
    {"{{project_structure_content}}", "{{contributing_content}}", "{{license_content}}"}

\* os.walk(self.repo_path) in _postprocess_readme: the directories, root first
walk_dirs ==
    LET sub == [i \in 1..Len(disk) |-> dirs_of(disk[i])]
        first(i) == sub[i] # <<>> /\ \A j \in 1..(i - 1) : sub[j] # sub[i]
        picked == SelectSeq([i \in 1..Len(disk) |-> i], first)
    IN  <<<<>>>> \o [k \in 1..Len(picked) |-> sub[picked[k]]]

\* _postprocess_readme: which files of a directory get a line
tree_keeps(path) == basename(path) \notin ignore_files

\* the files the tree lists, in walk order
project_structure_files == SelectSeq(disk, tree_keeps)

\* the lines of one directory: its own, then one per listed file
tree_lines(dir) ==
    LET here(path) == dirs_of(path) = dir
        listed == SelectSeq(project_structure_files, here)
    IN  <<IF dir = <<>> THEN "repo" ELSE basename(dir), "/">>
        \o [i \in 1..Len(listed) |-> basename(listed[i])]

\* project_structure_str
project_structure_str ==
    <<"code fence">> \o Flatten([d \in 1..Len(walk_dirs) |-> tree_lines(walk_dirs[d])])
    \o <<"code fence">>

\* the fixed contribution text
contributing_text == <<"contribution steps">>

\* the default license sentence
license_default == <<"licensed under MIT, see LICENSE">>

\* the license sentence for a license file found among the descriptors
license_found(path, url) ==
    <<"licensed as stated in">> \o path \o <<url, "/blob/main/">> \o path

\* the test of the license loop
is_license_file(file) == path_lower(file.path) = <<"license">>

\* _postprocess_readme
postprocess_readme(content, info) ==
    LET r1 == IF Contains(content, "{{project_structure_content}}")
              THEN Replace(content, "{{project_structure_content}}", project_structure_str)
              ELSE content
        r2 == IF Contains(r1, "{{contributing_content}}")
              THEN Replace(r1, "{{contributing_content}}", contributing_text)
              ELSE r1
        found == SelectSeq(info.files, is_license_file)
    IN  IF Contains(r2, "{{license_content}}")
        THEN Replace(r2, "{{license_content}}",
                     IF found # <<>>
                     THEN license_found(found[1].path, info.remote_url)
                     ELSE license_default)
        ELSE r2

\* generate_readme after the analysis loop, the model answering the sections
\* request with resp: the call made, the document returned, whether it raised
generate_sections(info, resp) ==
    LET ret    == analyze_with_llm(resp)
        call   == Call("sections", <<>>, 0, Empty, llm_prompt_for_sections(info), ret)
        parsed == json_loads(ret.value)
        generated_sections ==
            IF parsed.error
            THEN Parsed(FALSE, TRUE, SectionKeys, fallback_sections)
            ELSE parsed
    IN  IF ret.raised \/ ~generated_sections.is_dict
        THEN [ call |-> call, raised |-> TRUE, readme |-> None,
               sections_used |-> NoSections ]
        ELSE [ call |-> call, raised |-> FALSE,
               readme |-> postprocess_readme(
                              readme_template_content(generated_sections), info),
               sections_used |-> [k \in SectionKeys |->
                                     section_get(generated_sections, k)] ]

-----------------------------------------------------------------------------
(* The pipeline: get_repo_info, then generate_readme *)

\* what _read_file_content can return for a file: None (unreadable) or its text
ContentChoices == {None} \cup {ContentOfLen(n) : n \in 0..MaxRepoChars}

RECURSIVE TotalChars(_, _)
\* total length of the contents read, over the paths of S
TotalChars(content, S) ==
    IF S = {} THEN 0
    ELSE LET p == CHOOSE q \in S : TRUE
         IN  (IF content[p] = None THEN 0 ELSE Len(content[p]))
             + TotalChars(content, S \ {p})

\* the texts the model answers chunk requests with: the k-th request of a file
\* gets the k-th atom
AnalysisAtoms == <<"R1", "R2", "R3", "R4", "R5">>

\* the outcomes of the request for chunk k
ChunkResponses(k) ==
    { ConnectionError, Resp("ok", 200, "list", FALSE, FALSE, Empty),
      OkText(<<AnalysisAtoms[k]>>) }

\* the outcomes of the consolidation request
CombineResponses == { ConnectionError, OkText(<<"merged">>) }

\* the outcomes of the sections request
SectionsResponses ==
    { ConnectionError, Resp("ok", 200, "list", FALSE, FALSE, Empty) }
    \cup { OkText(t) : t \in SectionsTexts }

\* the outcomes of the requests analyze_file makes for a file of n chunks:
\* one per chunk, then one for the consolidation
FileResponses(n) ==
    { f \in [1..(n + 1) -> UNION {ChunkResponses(k) : k \in 1..n} \cup CombineResponses] :
        /\ \A k \in 1..n : f[k] \in ChunkResponses(k)
        /\ f[n + 1] \in CombineResponses }

\* nothing has been written to the terminal yet
NoFrame == [ percent |-> -1, work_finished |-> FALSE, message |-> "" ]

\* result = [None] and exception = [None]
EmptySlots == [ result |-> "None", exception |-> "None" ]

\* run_with_loading_animation has not ended
NotEnded == [ raised |-> FALSE, value |-> "" ]

EmptyRepoInfo ==
    [ files |-> <<>>, language_stats |-> [lang \in Languages |-> 0], remote_url |-> "" ]

\* no RepositoryDocumenter has been made and the main flow is not running
MainIdle ==
    /\ temp_dir = "None"
    /\ temp_dir_exists = FALSE
    /\ repo = "None"
    /\ documenter = "None"
    /\ main_log = <<>>
    /\ rmtree_log = <<>>

\* run_with_loading_animation is not running
AnimationIdle ==
    /\ thread = "not started"
    /\ current_step = 0
    /\ loop_pc = "idle"
    /\ frame = NoFrame
    /\ message = ""
    /\ slots = EmptySlots
    /\ anim_return = NotEnded

Init ==
    /\ \E P \in SUBSET Universe :
          /\ Cardinality(P) <= MaxFiles
          /\ disk = SelectSeq(WalkOrder, LAMBDA p : p \in P)
          /\ disk_content \in { c \in [P -> ContentChoices] :
                                   TotalChars(c, P) <= MaxRepoChars }
    /\ pc = "start"
    /\ repo_info = EmptyRepoInfo
    /\ idx = 0
    /\ calls = <<>>
    /\ readme = None
    /\ response = NoResponse
    /\ llm_return = NoReturn
    /\ sections_used = NoSections
    /\ AnimationIdle
    /\ MainIdle

\* get_repo_info
get_repo_info ==
    /\ pc = "start"
    /\ repo_info' = [ files |-> scan_repository,
                      language_stats |-> get_language_stats,
                      remote_url |-> remote_url ]
    /\ idx' = 1
    /\ pc' = "generate"
    /\ UNCHANGED <<disk, disk_content, calls, readme, response, llm_return,
                   sections_used, anim_vars, main_vars>>

\* one turn of the loop, storing the descriptor at the first position of
\* repo_info["files"] whichever file it is
analyze_next_file_mutant ==
    /\ pc = "generate"
    /\ idx <= Len(repo_info.files)
    /\ LET file_info == repo_info.files[idx]
           n == IF analysis_skipped(file_info) THEN 0
                ELSE Len(chunks_of(file_info.content))
       IN  \E resps \in FileResponses(n) :
             LET out == analyze_file(file_info, resps) IN
             /\ repo_info' = [repo_info EXCEPT !.files[1] = out.file_info]
             /\ calls' = calls \o out.calls
             /\ response' = IF out.calls = <<>> THEN response ELSE out.last
             /\ llm_return' =
                  IF out.calls = <<>> THEN llm_return
                  ELSE [ raised |-> out.calls[Len(out.calls)].raised,
                         value  |-> out.calls[Len(out.calls)].result ]
             /\ pc' = IF out.raised THEN "raised" ELSE pc
             /\ idx' = IF out.raised THEN idx ELSE idx + 1
    /\ UNCHANGED <<disk, disk_content, readme, sections_used, anim_vars, main_vars>>

\* generate_readme: one turn of the loop over repo_info["files"]
analyze_next_file ==
    /\ pc = "generate"
    /\ idx <= Len(repo_info.files)
    /\ LET file_info == repo_info.files[idx]
           n == IF analysis_skipped(file_info) THEN 0
                ELSE Len(chunks_of(file_info.content))
       IN  \E resps \in FileResponses(n) :
             LET out == analyze_file(file_info, resps) IN
             /\ repo_info' = [repo_info EXCEPT !.files[idx] = out.file_info]
             /\ calls' = calls \o out.calls
             /\ response' = IF out.calls = <<>> THEN response ELSE out.last
             /\ llm_return' =
                  IF out.calls = <<>> THEN llm_return
                  ELSE [ raised |-> out.calls[Len(out.calls)].raised,
                         value  |-> out.calls[Len(out.calls)].result ]
             /\ pc' = IF out.raised THEN "raised" ELSE pc
             /\ idx' = IF out.raised THEN idx ELSE idx + 1
    /\ UNCHANGED <<disk, disk_content, readme, sections_used, anim_vars, main_vars>>

\* the sections request and the rendering sit inside the analysis loop
finish_readme_mutant ==
    /\ pc = "generate"
    /\ idx <= Len(repo_info.files) + 1
    /\ \E resp \in SectionsResponses :
         LET out == generate_sections(repo_info, resp) IN
         /\ calls' = Append(calls, out.call)
         /\ response' = resp
         /\ llm_return' = [ raised |-> out.call.raised, value |-> out.call.result ]
         /\ readme' = out.readme
         /\ sections_used' = out.sections_used
         /\ pc' = IF out.raised THEN "raised" ELSE "done"
    /\ UNCHANGED <<disk, disk_content, repo_info, idx, anim_vars, main_vars>>

\* generate_readme: after the loop, to its return
finish_readme ==
    /\ pc = "generate"
    /\ idx = Len(repo_info.files) + 1
    /\ \E resp \in SectionsResponses :
         LET out == generate_sections(repo_info, resp) IN
         /\ calls' = Append(calls, out.call)
         /\ response' = resp
         /\ llm_return' = [ raised |-> out.call.raised, value |-> out.call.result ]
         /\ readme' = out.readme
         /\ sections_used' = out.sections_used
         /\ pc' = IF out.raised THEN "raised" ELSE "done"
    /\ UNCHANGED <<disk, disk_content, repo_info, idx, anim_vars, main_vars>>

Next == get_repo_info \/ analyze_next_file \/ finish_readme

Spec == Init /\ [][Next]_vars

-----------------------------------------------------------------------------
(* The model client on its own *)

\* the "response" texts the client's requests are answered with
ClientTexts == { Empty, <<" ">>, <<"A">>, <<" ", "A", "\n">>, <<"A", " ", "B">> }

InitClient ==
    /\ disk = <<>>
    /\ disk_content = <<>>
    /\ pc = "client"
    /\ repo_info = EmptyRepoInfo
    /\ idx = 0
    /\ calls = <<>>
    /\ readme = None
    /\ response = NoResponse
    /\ llm_return = NoReturn
    /\ sections_used = NoSections
    /\ AnimationIdle
    /\ MainIdle

\* one call of analyze_with_llm
client_call ==
    /\ pc = "client"
    /\ Len(calls) < MaxClientCalls
    /\ \E resp \in ResponsesOf(ClientTexts) :
         LET ret == analyze_with_llm(resp) IN
         /\ response' = resp
         /\ llm_return' = ret
         /\ calls' = Append(calls, Call("direct", <<>>, 0, Empty, <<"prompt">>, ret))
    /\ UNCHANGED <<disk, disk_content, pc, repo_info, idx, readme,
                   sections_used, anim_vars, main_vars>>

NextClient == client_call

SpecClient == InitClient /\ [][NextClient]_vars

-----------------------------------------------------------------------------
(* run_with_loading_animation: the worker thread and the polling loop *)

\* total_steps
total_steps == 100

\* current_step is a float; the model counts it in tenths
ToTenths(x) == 10 * x

\* int(current_step), the percentage a frame shows
percent_of(step) == step \div 10

\* samples of random.uniform(1.0, 3.0), (0.5, 1.5), (0.1, 0.5), in tenths
progress_increments(step) ==
    IF step < ToTenths(50) THEN {10, 20, 30}
    ELSE IF step < ToTenths(90) THEN {5, 10, 15}
    ELSE {1, 3, 5}

\* func has returned or raised inside target_func
work_finished == thread \in {"returned", "raised", "dead"}

\* thread.is_alive()
is_alive == thread \in {"running", "returned", "raised"}

InitAnim ==
    /\ disk = <<>>
    /\ disk_content = <<>>
    /\ pc = "animation"
    /\ repo_info = EmptyRepoInfo
    /\ idx = 0
    /\ calls = <<>>
    /\ readme = None
    /\ response = NoResponse
    /\ llm_return = NoReturn
    /\ sections_used = NoSections
    /\ AnimationIdle
    /\ MainIdle

\* the variables run_with_loading_animation leaves alone
pipeline_vars == <<disk, disk_content, pc, repo_info, idx, calls, readme,
                   response, llm_return, sections_used, main_vars>>

\* thread.start(), up to the first test of the loop
thread_start ==
    /\ pc = "animation"
    /\ loop_pc = "idle"
    /\ thread' = "running"
    /\ loop_pc' = "test"
    /\ UNCHANGED <<current_step, frame, message, slots, anim_return, pipeline_vars>>

\* target_func: func returns and its value is stored, or raises and the
\* exception is stored
target_func ==
    /\ thread = "running"
    /\ \/ thread' = "returned" /\ slots' = [slots EXCEPT !.result = "value"]
       \/ thread' = "raised" /\ slots' = [slots EXCEPT !.exception = "error"]
    /\ UNCHANGED <<current_step, loop_pc, frame, message, anim_return, pipeline_vars>>

\* the worker thread ends after target_func has returned
thread_ends ==
    /\ thread \in {"returned", "raised"}
    /\ thread' = "dead"
    /\ UNCHANGED <<current_step, loop_pc, frame, message, slots, anim_return,
                   pipeline_vars>>

\* the loop: "if not thread.is_alive()" and, the thread being dead, the branch
\* that sets 100% or leaves the loop
loop_test ==
    /\ loop_pc = "test"
    /\ IF ~is_alive
       THEN IF current_step < ToTenths(total_steps)
            THEN /\ current_step' = ToTenths(total_steps)
                 /\ message' = "Gotovo!"
                 /\ loop_pc' = "write"
            ELSE /\ UNCHANGED <<current_step, message>>
                 /\ loop_pc' = "join"
       ELSE /\ UNCHANGED <<current_step, message>>
            /\ loop_pc' = "advance"
    /\ UNCHANGED <<thread, frame, slots, anim_return, pipeline_vars>>

\* the progress of the branch "thread alive" is capped at total_steps
loop_advance_mutant ==
    /\ loop_pc = "advance"
    /\ \E progress_increment \in progress_increments(current_step) :
          current_step' = Min(current_step + progress_increment, ToTenths(total_steps))
    /\ message' = "random.choice(messages)"
    /\ loop_pc' = "write"
    /\ UNCHANGED <<thread, frame, slots, anim_return, pipeline_vars>>

\* the loop, the thread having been found alive: the progress moves on, never
\* beyond 99.0
loop_advance ==
    /\ loop_pc = "advance"
    /\ \E progress_increment \in progress_increments(current_step) :
          current_step' = Min(current_step + progress_increment, ToTenths(99))
    /\ message' = "random.choice(messages)"
    /\ loop_pc' = "write"
    /\ UNCHANGED <<thread, frame, slots, anim_return, pipeline_vars>>

\* the loop: the frame is written to the terminal
loop_write ==
    /\ loop_pc = "write"
    /\ frame' = [ percent |-> percent_of(current_step),
                  work_finished |-> work_finished,
                  message |-> message ]
    /\ loop_pc' = "sleep"
    /\ UNCHANGED <<thread, current_step, message, slots, anim_return, pipeline_vars>>

\* the loop: time.sleep(0.2)
loop_sleep ==
    /\ loop_pc = "sleep"
    /\ loop_pc' = "test"
    /\ UNCHANGED <<thread, current_step, frame, message, slots, anim_return,
                   pipeline_vars>>

\* after the loop the result is returned without a look at the exception slot
loop_join_mutant ==
    /\ loop_pc = "join"
    /\ thread = "dead"
    /\ anim_return' = [ raised |-> FALSE, value |-> slots.result ]
    /\ loop_pc' = "left"
    /\ UNCHANGED <<thread, current_step, frame, message, slots, pipeline_vars>>

\* after the loop: thread.join(), then "raise exception[0]" if the slot is
\* set, else "return result[0]"
loop_join ==
    /\ loop_pc = "join"
    /\ thread = "dead"
    /\ anim_return' = IF slots.exception # "None"
                      THEN [ raised |-> TRUE, value |-> slots.exception ]
                      ELSE [ raised |-> FALSE, value |-> slots.result ]
    /\ loop_pc' = "left"
    /\ UNCHANGED <<thread, current_step, frame, message, slots, pipeline_vars>>

NextAnim ==
    \/ thread_start \/ target_func \/ thread_ends
    \/ loop_test \/ loop_advance \/ loop_write \/ loop_sleep \/ loop_join

SpecAnim == InitAnim /\ [][NextAnim]_vars

\* the scheduler lets the main thread run and lets a worker whose target_func
\* has returned end; func itself need not terminate
SpecAnimFair ==
    /\ SpecAnim
    /\ WF_vars(thread_start) /\ WF_vars(thread_ends)
    /\ WF_vars(loop_test) /\ WF_vars(loop_advance) /\ WF_vars(loop_write)
    /\ WF_vars(loop_sleep) /\ WF_vars(loop_join)

-----------------------------------------------------------------------------
(* cleanup *)

\* max_retries
max_retries == 5

\* largest number of calls of cleanup on one object
MaxCleanupCalls == 2

\* what one call of shutil.rmtree comes to: done, or the exception raised
RmtreeOutcomes == {"ok", "PermissionError", "OSError"}

\* the loop retries after every exception
rmtree_handler_mutant(outcome) ==
    IF outcome = "ok" THEN "break" ELSE "retry"

\* the body of the retry loop: what follows a call of shutil.rmtree
rmtree_handler(outcome) ==
    IF outcome = "ok" THEN "break"
    ELSE IF except_matches("PermissionError", outcome) THEN "retry"
    ELSE IF except_matches("Exception", outcome) THEN "break"
    ELSE "raise"

\* "for i in range(max_retries)": the number of shutil.rmtree calls made when
\* the i-th call would come to outcomes[i]
rmtree_attempts(outcomes) ==
    IF \E i \in 1..max_retries : rmtree_handler(outcomes[i]) # "retry"
    THEN CHOOSE i \in 1..max_retries :
           /\ rmtree_handler(outcomes[i]) # "retry"
           /\ \A j \in 1..(i - 1) : rmtree_handler(outcomes[j]) = "retry"
    ELSE max_retries

\* cleanup, self.repo.close() raising or not and the rmtree calls coming to
\* outcomes: its effect on the object and the directory, and its log entry
cleanup(close_raises, outcomes) ==
    IF temp_dir # "None" /\ temp_dir_exists
    THEN LET n    == rmtree_attempts(outcomes)
             made == SubSeq(outcomes, 1, n)
         IN  /\ repo' = IF repo # "None" /\ ~close_raises THEN "None" ELSE repo
             /\ temp_dir_exists' = (made[n] # "ok")
             /\ rmtree_log' = Append(rmtree_log,
                    [ attempts |-> made,
                      raised   |-> rmtree_handler(made[n]) = "raise" ])
    ELSE /\ UNCHANGED <<repo, temp_dir_exists>>
         /\ rmtree_log' = Append(rmtree_log, [ attempts |-> <<>>, raised |-> FALSE ])

\* the objects cleanup is called on: made for a local path, made for a URL
\* with the clone done or failed, and the directory there or removed since
InitCleanup ==
    /\ disk = <<>>
    /\ disk_content = <<>>
    /\ pc = "cleanup"
    /\ repo_info = EmptyRepoInfo
    /\ idx = 0
    /\ calls = <<>>
    /\ readme = None
    /\ response = NoResponse
    /\ llm_return = NoReturn
    /\ sections_used = NoSections
    /\ AnimationIdle
    /\ documenter = "object"
    /\ main_log = <<>>
    /\ rmtree_log = <<>>
    /\ \/ temp_dir = "None" /\ temp_dir_exists = FALSE /\ repo \in {"None", "open"}
       \/ temp_dir = "temp_repos" /\ temp_dir_exists \in BOOLEAN
          /\ repo \in {"None", "open"}

\* one call of cleanup
cleanup_call ==
    /\ pc = "cleanup"
    /\ Len(rmtree_log) < MaxCleanupCalls
    /\ \E close_raises \in BOOLEAN, outcomes \in [1..max_retries -> RmtreeOutcomes] :
          cleanup(close_raises, outcomes)
    /\ UNCHANGED <<disk, disk_content, pc, repo_info, idx, calls, readme, response,
                   llm_return, sections_used, anim_vars, temp_dir, documenter,
                   main_log>>

NextCleanup == cleanup_call

SpecCleanup == InitCleanup /\ [][NextCleanup]_vars

-----------------------------------------------------------------------------
(* The main flow: construction, the three stages, and the finally clause *)

\* the temp_repos directory may be left over from an earlier run
InitMain ==
    /\ disk = <<>>
    /\ disk_content = <<>>
    /\ pc = "main"
    /\ repo_info = EmptyRepoInfo
    /\ idx = 0
    /\ calls = <<>>
    /\ readme = None
    /\ response = NoResponse
    /\ llm_return = NoReturn
    /\ sections_used = NoSections
    /\ AnimationIdle
    /\ temp_dir = "None"
    /\ temp_dir_exists \in BOOLEAN
    /\ repo = "None"
    /\ documenter = "None"
    /\ main_log = <<>>
    /\ rmtree_log = <<>>

\* the variables the main flow leaves alone
other_vars == <<disk, disk_content, repo_info, idx, calls, readme, response,
                llm_return, sections_used, anim_vars>>

\* documenter = run_with_loading_animation(RepositoryDocumenter, ...):
\* __init__ and initialize_repository, for a URL or a local path; when
\* initialize_repository raises, documenter is not assigned
main_construct ==
    /\ pc = "main"
    /\ \/ \* a URL: temp_repos is made, then the clone succeeds or raises
          /\ temp_dir' = "temp_repos"
          /\ temp_dir_exists' = TRUE
          /\ \/ /\ repo' = "open"
                /\ documenter' = "object"
                /\ main_log' = Append(main_log, "cloned")
                /\ pc' = "constructed"
             \/ /\ repo' = "None"
                /\ documenter' = documenter
                /\ main_log' = Append(main_log, "clone failed")
                /\ pc' = "except"
       \/ \* a local path: it is opened, or it is missing or no repository
          /\ UNCHANGED <<temp_dir, temp_dir_exists>>
          /\ \/ /\ repo' = "open"
                /\ documenter' = "object"
                /\ main_log' = Append(main_log, "opened")
                /\ pc' = "constructed"
             \/ /\ repo' = "None"
                /\ documenter' = documenter
                /\ main_log' = Append(main_log, "open failed")
                /\ pc' = "except"
    /\ UNCHANGED <<rmtree_log, other_vars>>

\* repo_info = run_with_loading_animation(documenter.get_repo_info), and the
\* lines up to the generation: it returns or raises
main_get_repo_info ==
    /\ pc = "constructed"
    /\ documenter # "None" /\ repo # "None"
    /\ \/ main_log' = Append(main_log, "scanned") /\ pc' = "scanned"
       \/ main_log' = Append(main_log, "scan failed") /\ pc' = "except"
    /\ UNCHANGED <<temp_dir, temp_dir_exists, repo, documenter, rmtree_log, other_vars>>

\* readme_content = run_with_loading_animation(documenter.generate_readme,
\* repo_info): it returns or raises
main_generate_readme ==
    /\ pc = "scanned"
    /\ \/ main_log' = Append(main_log, "generated") /\ pc' = "generated"
       \/ main_log' = Append(main_log, "generation failed") /\ pc' = "except"
    /\ UNCHANGED <<temp_dir, temp_dir_exists, repo, documenter, rmtree_log, other_vars>>

\* documenter.save_readme(...): it writes the file, or catches the error of
\* the write itself
main_save_readme ==
    /\ pc = "generated"
    /\ \E saved \in {"saved", "save failed"} : main_log' = Append(main_log, saved)
    /\ pc' = "finally"
    /\ UNCHANGED <<temp_dir, temp_dir_exists, repo, documenter, rmtree_log, other_vars>>

\* except Exception as e: the critical error is printed
main_except ==
    /\ pc = "except"
    /\ main_log' = Append(main_log, "critical error")
    /\ pc' = "finally"
    /\ UNCHANGED <<temp_dir, temp_dir_exists, repo, documenter, rmtree_log, other_vars>>

\* finally: "if documenter: documenter.cleanup()", then the program ends
main_finally ==
    /\ pc = "finally"
    /\ IF documenter # "None"
       THEN \E close_raises \in BOOLEAN, outcomes \in [1..max_retries -> RmtreeOutcomes] :
               cleanup(close_raises, outcomes)
       ELSE UNCHANGED <<repo, temp_dir_exists, rmtree_log>>
    /\ pc' = "ended"
    /\ UNCHANGED <<temp_dir, documenter, main_log, other_vars>>

NextMain ==
    \/ main_construct \/ main_get_repo_info \/ main_generate_readme
    \/ main_save_readme \/ main_except \/ main_finally

SpecMain == InitMain /\ [][NextMain]_vars

-----------------------------------------------------------------------------
(* Properties *)

\* generate_readme has returned a document
Rendered == pc = "done"

\* the descriptors analyze_file has returned for
AnalyzedFiles == {i \in 1..Len(repo_info.files) : i < idx}

\* the calls of one kind made for the file at path, in order
CallsOf(path, kind) == SelectSeq(calls, LAMBDA c : c.path = path /\ c.kind = kind)

\* the non-empty results of the chunk calls of a file, in chunk order
ChunkResults(path) ==
    LET good == SelectSeq(CallsOf(path, "chunk"), LAMBDA c : c.result # Empty)
    IN  [j \in 1..Len(good) |-> good[j].result]

\* sub occurs in text as a run of consecutive atoms
ContainsSeq(text, sub) ==
    \E i \in 0..(Len(text) - Len(sub)) : SubSeq(text, i + 1, i + Len(sub)) = sub

\* a license sentence of the "found" variant is in the document
FoundSentenceShown == Contains(readme, "licensed as stated in")

\* the default license sentence is in the document
DefaultSentenceShown == ContainsSeq(readme, license_default)

\* C1: a document returned by generate_readme contains none of the three
\* placeholders that its template holds (project structure, contribution
\* guide, license): _postprocess_readme has replaced each of them.
C1_NoPlaceholderLeft ==
    Rendered => \A token \in TemplatePlaceholders : ~Contains(readme, token)

\* C2: a returned document shows exactly one license sentence: the "found"
\* variant if and only if a descriptor's path is "license" up to case, and the
\* default MIT variant otherwise; never both and never neither.
C2_ExactlyOneLicenseSentence ==
    Rendered =>
        LET license_listed ==
                \E i \in 1..Len(repo_info.files) : is_license_file(repo_info.files[i])
        IN  /\ FoundSentenceShown <=> license_listed
            /\ DefaultSentenceShown <=> ~license_listed

\* C3: for a tree with a file LICENSE at its root, the returned document's
\* license sentence is the "found" variant referring to LICENSE, not the
\* default MIT sentence.
C3_RootLicenseIsFound ==
    (Rendered /\ \E i \in 1..Len(disk) : disk[i] = <<"LICENSE">>) =>
        /\ ContainsSeq(readme, license_found(<<"LICENSE">>, repo_info.remote_url))
        /\ ~DefaultSentenceShown

\* C4: the files listed by _scan_repository, the files tallied by
\* _get_language_stats and the files drawn by the tree walk of
\* _postprocess_readme are the same set of paths.
C4_SameFilesThreeWays ==
    pc # "start" =>
        LET listed  == {repo_info.files[i].path : i \in 1..Len(repo_info.files)}
            tallied == Range(SelectSeq(disk, stats_tallies))
            drawn   == Range(project_structure_files)
        IN  listed = tallied /\ listed = drawn

\* C5: in the metadata of get_repo_info, language_stats[L] (0 if absent) is the
\* number of descriptors of language L, for every label L, "Unknown" included.
C5_StatsCountListedFiles ==
    pc # "start" =>
        \A lang \in Languages :
            repo_info.language_stats[lang] =
                Cardinality({i \in 1..Len(repo_info.files) :
                                repo_info.files[i].language = lang})

\* analyze_file did not skip the descriptor: it has content and its language
\* is none of Unknown, JSON, YAML, TOML, Markdown
NotSkipped(file) ==
    /\ file.content # None
    /\ file.content # Empty
    /\ file.language \notin {"Unknown", "JSON", "YAML", "TOML", "Markdown"}

\* the atoms of a prompt that are chunk results, in the prompt's order
ResultsIn(prompt) ==
    SelectSeq(prompt, LAMBDA a : \E k \in 1..Len(AnalysisAtoms) : a = AnalysisAtoms[k])

\* C6: for an analyzed, non-skipped file whose chunk calls gave N non-empty
\* results: if N > 1, exactly one consolidation call was made and its prompt
\* holds the N results in chunk order; if N = 1, no consolidation call was made
\* and analysis is that result; if N = 0, no consolidation call was made and
\* analysis is the fixed failure text.
C6_ConsolidationRule ==
    \A i \in AnalyzedFiles :
        LET file     == repo_info.files[i]
            results  == ChunkResults(file.path)
            combines == CallsOf(file.path, "combine")
        IN  NotSkipped(file) =>
              /\ Len(results) > 1 =>
                    /\ Len(combines) = 1
                    /\ ResultsIn(combines[1].prompt) = Flatten(results)
              /\ Len(results) = 1 =>
                    /\ combines = <<>>
                    /\ file.analysis = results[1]
              /\ Len(results) = 0 =>
                    /\ combines = <<>>
                    /\ file.analysis = AnalysisFailed

\* a file of three chunks whose middle chunk failed has been consolidated
C6_Witness ==
    \E i \in AnalyzedFiles :
        LET file == repo_info.files[i] IN
        /\ Len(CallsOf(file.path, "chunk")) = 3
        /\ ChunkResults(file.path) = << <<"R1">>, <<"R3">> >>
        /\ Len(CallsOf(file.path, "combine")) = 1

\* only the second chunk call of the file failed
OnlySecondChunkFailed(path) ==
    LET cs == CallsOf(path, "chunk") IN
    /\ Len(cs) >= 2
    /\ \A k \in 1..Len(cs) : (cs[k].result = Empty) <=> (k = 2)

\* C7 as stated: for a file longer than two chunk sizes of which only the
\* second chunk call failed, analysis is the first chunk's result and no
\* consolidation call was made.
C7_LongerThanTwoChunks ==
    \A i \in AnalyzedFiles :
        LET file == repo_info.files[i] IN
        (/\ NotSkipped(file)
         /\ Len(file.content) > 2 * max_chunk_size
         /\ OnlySecondChunkFailed(file.path)) =>
            /\ file.analysis = CallsOf(file.path, "chunk")[1].result
            /\ CallsOf(file.path, "combine") = <<>>

\* C7, amended: for a file of exactly two chunks (longer than one chunk size,
\* not longer than two) of which only the second chunk call failed, analysis is
\* the first chunk's result and no consolidation call was made.
C7_ExactlyTwoChunks ==
    \A i \in AnalyzedFiles :
        LET file == repo_info.files[i] IN
        (/\ NotSkipped(file)
         /\ Len(file.content) > max_chunk_size
         /\ Len(file.content) <= 2 * max_chunk_size
         /\ OnlySecondChunkFailed(file.path)) =>
            /\ file.analysis = CallsOf(file.path, "chunk")[1].result
            /\ CallsOf(file.path, "combine") = <<>>

\* a two-chunk file whose second chunk call alone failed has been analyzed
C7_Witness ==
    \E i \in AnalyzedFiles :
        LET file == repo_info.files[i] IN
        /\ NotSkipped(file)
        /\ Len(file.content) = 2 * max_chunk_size
        /\ OnlySecondChunkFailed(file.path)
        /\ file.analysis = <<"R1">>

\* C8: for an analyzed, non-skipped file with content of length L >= 1 and
\* chunk size C, the chunks sent are ceil(L/C) in number, each of length 1..C,
\* and their concatenation in order is the content.
C8_Chunking ==
    \A i \in AnalyzedFiles :
        LET file == repo_info.files[i]
            cs   == CallsOf(file.path, "chunk")
            L    == Len(file.content)
        IN  NotSkipped(file) =>
              /\ Len(cs) = (L + max_chunk_size - 1) \div max_chunk_size
              /\ \A k \in 1..Len(cs) :
                    /\ cs[k].part = k
                    /\ 1 <= Len(cs[k].chunk)
                    /\ Len(cs[k].chunk) <= max_chunk_size
              /\ Flatten([k \in 1..Len(cs) |-> cs[k].chunk]) = file.content

\* a file whose length is no multiple of the chunk size was cut in three
C8_Witness ==
    \E i \in AnalyzedFiles :
        LET file == repo_info.files[i]
            cs   == CallsOf(file.path, "chunk")
        IN  /\ Len(file.content) = 2 * max_chunk_size + 1
            /\ Len(cs) = 3
            /\ Len(cs[3].chunk) = 1

\* C9: analyze_file on a file with absent or empty content, or of language
\* Unknown, JSON, YAML, TOML or Markdown, makes no model call and leaves
\* analysis None; on any other file it makes at least one model call and
\* analysis is not None afterwards.
C9_SkipRule ==
    \A i \in AnalyzedFiles :
        LET file == repo_info.files[i]
            made == SelectSeq(calls, LAMBDA c : c.path = file.path)
        IN  IF NotSkipped(file)
            THEN made # <<>> /\ file.analysis # None
            ELSE made = <<>> /\ file.analysis = None

\* a file with content but a skipped markup language, and an analyzed file,
\* have both been through analyze_file
C9_Witness ==
    /\ \E i \in AnalyzedFiles :
          /\ repo_info.files[i].language \in {"YAML", "TOML", "Markdown"}
          /\ Truthy(repo_info.files[i].content)
          /\ repo_info.files[i].analysis = None
    /\ \E i \in AnalyzedFiles :
          /\ NotSkipped(repo_info.files[i])
          /\ repo_info.files[i].analysis # None

\* the latest request brought a body that is an object with a non-blank
\* string "response"
NonBlankResponse ==
    /\ response.body_kind = "dict"
    /\ response.has_response
    /\ response.is_str
    /\ \E j \in 1..Len(response.text) : response.text[j] \notin Whitespace

\* the latest request failed in one of the ways the body of the claim names,
\* the status test being given
RequestFailed(bad_status) ==
    \/ response.net \in {"connection_error", "timeout"}
    \/ bad_status
    \/ response.body_kind \in {"invalid", "list"}
    \/ response.body_kind = "dict" /\ response.has_response /\ ~response.is_str

\* C10 as stated: analyze_with_llm never raises; on network failure, timeout,
\* non-2xx status, undecodable body or a body of unexpected shape it returns
\* ""; it returns a non-empty string only when the request succeeded with a
\* 2xx status and the body carried a non-blank "response".
C10_Non2xxIsEmpty ==
    calls # <<>> =>
        LET non2xx == response.net = "ok" /\ ~(200 <= response.status /\ response.status < 300)
        IN  /\ ~llm_return.raised
            /\ RequestFailed(non2xx) => llm_return.value = Empty
            /\ llm_return.value # Empty =>
                  response.net = "ok" /\ ~non2xx /\ NonBlankResponse

\* C10, amended: analyze_with_llm never raises; on network failure, timeout,
\* a 4xx or 5xx status, undecodable body or a body of unexpected shape it
\* returns ""; it returns a non-empty string only when a response arrived
\* whose status is not 4xx or 5xx and whose body carried a non-blank
\* "response".
C10_ErrorStatusIsEmpty ==
    calls # <<>> =>
        LET error_status == response.net = "ok" /\ response.status >= 400
        IN  /\ ~llm_return.raised
            /\ RequestFailed(error_status) => llm_return.value = Empty
            /\ llm_return.value # Empty =>
                  response.net = "ok" /\ ~error_status /\ NonBlankResponse

\* a 200 answer whose body is JSON but no object came back as ""
C10_Witness ==
    /\ calls # <<>>
    /\ response.net = "ok" /\ response.status = 200 /\ response.body_kind = "list"
    /\ llm_return = [raised |-> FALSE, value |-> Empty]

\* generate_readme has issued the sections request
SectionsCalled == calls # <<>> /\ calls[Len(calls)].kind = "sections"

\* the text analyze_with_llm returned for the sections request
json_content_str == calls[Len(calls)].result

SectionsRendered == SectionsCalled /\ pc = "done"

C13_AlwaysReturnsDocument ==
    /\ pc # "raised"
    /\ SectionsCalled => (pc = "done" /\ readme # None)

\* C14: for an analyzed, non-skipped file, analysis is neither absent nor
\* empty: it is the fixed failure text, or the non-empty result of one of the
\* file's chunk calls, or the non-empty result of its consolidation call.
C14_AnalysisNeverEmpty ==
    \A i \in AnalyzedFiles :
        LET file     == repo_info.files[i]
            results  == ChunkResults(file.path)
            combines == CallsOf(file.path, "combine")
        IN  NotSkipped(file) =>
              /\ file.analysis # None
              /\ file.analysis # Empty
              /\ \/ file.analysis = AnalysisFailed
                 \/ \E j \in 1..Len(results) : file.analysis = results[j]
                 \/ \E j \in 1..Len(combines) : file.analysis = combines[j].result

\* C15: the prompt of every chunk call holds the file's path, its language
\* and the chunk's text, and the prompts of two different chunks of a file
\* differ.
C15_PromptHoldsChunk ==
    \A i \in AnalyzedFiles :
        LET file == repo_info.files[i]
            cs   == CallsOf(file.path, "chunk")
        IN  /\ \A k \in 1..Len(cs) :
                  /\ ContainsSeq(cs[k].prompt, file.path)
                  /\ ContainsSeq(cs[k].prompt, <<file.language>>)
                  /\ ContainsSeq(cs[k].prompt, cs[k].chunk)
            /\ \A j, k \in 1..Len(cs) :
                  cs[j].chunk # cs[k].chunk => cs[j].prompt # cs[k].prompt

\* every call made for the file at path, in order
AllCallsOf(path) == SelectSeq(calls, LAMBDA c : c.path = path)

\* C16: for an analyzed, non-skipped file with content of length L, k being
\* ceil(L / chunk size): the first k calls made for the file are its chunk
\* calls, one per chunk and in chunk order, whatever they returned; the only
\* call that may follow them is one consolidation call.
C16_NoRetry ==
    \A i \in AnalyzedFiles :
        LET file == repo_info.files[i]
            all  == AllCallsOf(file.path)
            L    == Len(file.content)
            k    == (L + max_chunk_size - 1) \div max_chunk_size
        IN  NotSkipped(file) =>
              /\ Len(all) \in {k, k + 1}
              /\ \A j \in 1..k :
                    /\ all[j].kind = "chunk"
                    /\ all[j].part = j
                    /\ all[j].chunk = SubSeq(file.content, (j - 1) * max_chunk_size + 1,
                                             Min(j * max_chunk_size, L))
              /\ Len(all) = k + 1 => all[k + 1].kind = "combine"

\* the first of three chunk calls failed and the two others were still made,
\* followed by the consolidation
C16_Witness ==
    \E i \in AnalyzedFiles :
        LET all == AllCallsOf(repo_info.files[i].path) IN
        /\ Len(all) = 4
        /\ all[1].kind = "chunk" /\ all[1].result = Empty
        /\ all[2].kind = "chunk" /\ all[2].result # Empty
        /\ all[3].kind = "chunk" /\ all[3].result # Empty
        /\ all[4].kind = "combine"

\* the position in repo_info["files"] of the file a chunk or consolidation
\* call was made for
FileIndexOf(call) ==
    CHOOSE i \in 1..Len(repo_info.files) : repo_info.files[i].path = call.path

\* C17: in the log of model calls, the calls of a file come in one block and
\* the blocks are in file-list order; the sections call is made at most once,
\* is the last call, is made only when every non-skipped file has had its
\* calls, and has been made exactly once when generate_readme returns.
C17_Sequential ==
    /\ \A a, b \in 1..Len(calls) :
          (a < b /\ calls[b].kind # "sections") =>
              /\ calls[a].kind # "sections"
              /\ FileIndexOf(calls[a]) <= FileIndexOf(calls[b])
    /\ SectionsCalled =>
          \A i \in 1..Len(repo_info.files) :
              NotSkipped(repo_info.files[i]) =>
                  /\ AllCallsOf(repo_info.files[i].path) # <<>>
                  /\ repo_info.files[i].analysis # None
    /\ pc = "done" =>
          Cardinality({a \in 1..Len(calls) : calls[a].kind = "sections"}) = 1

\* two files were analyzed, the first with several calls, and the sections
\* call followed
C17_Witness ==
    /\ SectionsCalled
    /\ Len(repo_info.files) = 2
    /\ Len(AllCallsOf(repo_info.files[1].path)) >= 2
    /\ Len(AllCallsOf(repo_info.files[2].path)) >= 1
    /\ calls[1].path = repo_info.files[1].path
    /\ calls[Len(calls) - 1].path = repo_info.files[2].path

\* the files whose analysis is present, non-empty and not the failure text
QualifyingFiles ==
    SelectSeq(repo_info.files,
              LAMBDA f : f.analysis \notin {None, Empty, AnalysisFailed})

\* the positions of the entry headings in a prompt, in order
HeadingsIn(prompt) ==
    SelectSeq([p \in 1..Len(prompt) |-> p], LAMBDA p : prompt[p] = "### File:")

\* C18: the prompt of the sections call holds one entry per file whose
\* analysis is present, non-empty and not the failure text, in file-list
\* order, each made of the file's path, its language and its analysis; no
\* other file has an entry; the "analysis unavailable" text is in the prompt
\* exactly when no file qualifies.
C18_PromptListsAnalyses ==
    SectionsCalled =>
        LET prompt == calls[Len(calls)].prompt
            heads  == HeadingsIn(prompt)
            qual   == QualifyingFiles
        IN  /\ Len(heads) = Len(qual)
            /\ \A j \in 1..Len(qual) :
                  LET entry == qual[j].path \o <<"Language:", qual[j].language>>
                               \o qual[j].analysis
                  IN  SubSeq(prompt, heads[j] + 1, heads[j] + Len(entry)) = entry
            /\ (qual = <<>>) <=> Contains(prompt, "files analysis unavailable")

\* of two files the first ended with the failure text and the second with a
\* result; the sections prompt has the second only
C18_Witness ==
    /\ SectionsCalled
    /\ Len(repo_info.files) = 2
    /\ repo_info.files[1].analysis = AnalysisFailed
    /\ repo_info.files[2].analysis = <<"R1">>
    /\ Len(HeadingsIn(calls[Len(calls)].prompt)) = 1

\* the steps that keep the list of descriptors (every step after the scan)
SameDescriptors == Len(repo_info'.files) = Len(repo_info.files)

\* C19 as stated: in every step after the scan, each descriptor keeps all its
\* fields but analysis and gains no field; analysis changes only once, from
\* absent.
C19_OnlyAnalysisChanges ==
    [][ SameDescriptors =>
          \A i \in 1..Len(repo_info.files) :
              LET f == repo_info.files[i]
                  g == repo_info'.files[i]
              IN  /\ g = [f EXCEPT !.analysis = g.analysis]
                  /\ g.analysis # f.analysis => f.analysis = None ]_vars

\* C19, amended: in every step after the scan, each descriptor keeps path,
\* extension, language and content; a descriptor changes only if it is not
\* skipped and has not been analyzed yet, and then it gets its analysis and
\* the one further field _combine_message; it never changes again.
C19_AnalysisAndCombineMessage ==
    [][ SameDescriptors =>
          \A i \in 1..Len(repo_info.files) :
              LET f == repo_info.files[i]
                  g == repo_info'.files[i]
              IN  /\ g.path = f.path
                  /\ g.extension = f.extension
                  /\ g.language = f.language
                  /\ g.content = f.content
                  /\ g # f =>
                        /\ NotSkipped(f)
                        /\ f.analysis = None
                        /\ ~f.has_combine_message
                        /\ g.has_combine_message ]_vars

\* two files were analyzed in turn: both have an analysis and the further
\* field, and the content read by the scan
C19_Witness ==
    /\ Len(repo_info.files) = 2
    /\ idx = 3
    /\ \A i \in 1..2 :
          LET g == repo_info.files[i] IN
          /\ g.analysis \notin {None, Empty}
          /\ g.has_combine_message
          /\ g.content = disk_content[g.path]
    /\ repo_info.files[1].combine_message # None

\* C20: no frame showing less than 100% is written once the worker's unit of
\* work has finished (returned or raised).
C20_NoStaleFrame ==
    frame.work_finished => frame.percent = 100

\* C21: a frame written in a turn of the loop that found the worker alive
\* shows at most 99%; a frame of 100% is written only in a turn that found
\* the worker dead, so the worker is dead whenever the latest frame shows
\* 100%; and the percentage never goes down from one frame to the next.
C21_NoFullBarWhileAlive ==
    /\ [](/\ frame.message = "random.choice(messages)" => frame.percent <= 99
          /\ frame.percent = 100 => (frame.message = "Gotovo!" /\ ~is_alive))
    /\ [][frame'.percent >= frame.percent]_vars

\* the worker is still at work and the latest frame shows the cap of 99%
C21_Witness ==
    /\ thread = "running"
    /\ frame.percent = 99
    /\ frame.message = "random.choice(messages)"

\* C22: once func has returned or raised, the call comes to its end; at its
\* end the latest frame shows 100%, the worker thread is dead, and the call
\* has raised the exception func raised if there is one and has returned
\* func's value otherwise; the call ends, and so reads the two slots, only
\* when the worker thread is dead.
C22_TerminatesWithOutcome ==
    /\ work_finished ~> (loop_pc = "left")
    /\ [](loop_pc = "left" =>
            /\ frame.percent = 100
            /\ thread = "dead"
            /\ IF slots.exception # "None"
               THEN anim_return = [ raised |-> TRUE, value |-> "error" ]
               ELSE anim_return = [ raised |-> FALSE, value |-> "value" ])
    /\ [][anim_return' # anim_return => (thread = "dead" /\ loop_pc = "join")]_vars

\* func raised, the final frame was written and the call re-raised
C22_Witness ==
    /\ loop_pc = "left"
    /\ slots.exception = "error"
    /\ anim_return.raised
    /\ frame = [ percent |-> 100, work_finished |-> TRUE, message |-> "Gotovo!" ]

\* C23: every call of cleanup ends without raising; it makes at most
\* max_retries rmtree calls, each but the last having met a PermissionError,
\* and none after a success or another error; it makes none when the object
\* has no temporary directory; and once a call has removed the directory, no
\* later call makes any.
C23_CleanupBoundedIdempotent ==
    \A c \in 1..Len(rmtree_log) :
        LET a == rmtree_log[c].attempts IN
        /\ ~rmtree_log[c].raised
        /\ Len(a) <= 5
        /\ \A i \in 1..(Len(a) - 1) : a[i] = "PermissionError"
        /\ temp_dir = "None" => a = <<>>
        /\ (a # <<>> /\ a[Len(a)] = "ok") =>
              \A d \in (c + 1)..Len(rmtree_log) : rmtree_log[d].attempts = <<>>

\* a first call removed the directory at its third attempt, after two
\* PermissionErrors, and a second call attempted nothing
C23_Witness ==
    /\ Len(rmtree_log) = 2
    /\ rmtree_log[1].attempts = <<"PermissionError", "PermissionError", "ok">>
    /\ rmtree_log[2].attempts = <<>>
    /\ ~temp_dir_exists

\* C24: when the program ends after a run in which initialize_repository set
\* up the temporary directory, cleanup has been called, whichever way the run
\* went: to the end, into a failure of a stage, or into a failure of the
\* clone inside the constructor.
C24_CleanupAlwaysInvoked ==
    (pc = "ended" /\ temp_dir = "temp_repos") => rmtree_log # <<>>

====
